---- MODULE Spec2Model ----
(***************************************************************************)
(* A model of hytools_lite/base.py: the HyTools raster handle (data-handle  *)
(* lifecycle, wavelength resolution, read operations, mask registry) and   *)
(* the Iterator cursor (line / column / band / chunk traversal).            *)
(***************************************************************************)
EXTENDS Integers, Sequences, FiniteSets, TLC

VARIABLES
    hy_obj,     \* the HyTools object: its attributes, base.py 41-70
    fs,         \* the platform: what load_data finds under file_name, sys.byteorder
    iterator,   \* the Iterator object: its attributes, base.py 391-397
    last,       \* history: the outcome of the most recent call
    calls,      \* history: read_next calls since construction or reset()
    over,       \* history: read_next calls made while complete was already True
    was_reset,  \* history: reset() has been called on the cursor
    second      \* a second Iterator on the same HyTools object, with its own
                \* calls and over; None where only one cursor is created

vars == <<hy_obj, fs, iterator, last, calls, over, was_reset, second>>

(***************************************************************************)
(* Bounds of the model.                                                    *)
(***************************************************************************)
MaxDim == 2         \* lines, columns of the rasters of Spec are in 1..MaxDim
MaxOver == 1        \* read_next calls allowed past completion
IterMaxDim == 3     \* lines, columns, bands of the rasters of SpecIter
IterMaxStep == 4    \* chunk_size entries of SpecIter are in 1..IterMaxStep
WaveMaxLen == 3     \* the wavelength lists of SpecWave have 1..WaveMaxLen entries
DataMaxDim == 2     \* the small raster of SpecData is DataMaxDim x (DataMaxDim + 1)

None == "None"
NoneRet == [kind |-> "None"]

SeqMax(s) == CHOOSE x \in {s[i] : i \in DOMAIN s} : \A i \in DOMAIN s : s[i] <= x
SeqMin(s) == CHOOSE x \in {s[i] : i \in DOMAIN s} : \A i \in DOMAIN s : x <= s[i]
Abs(x) == IF x < 0 THEN -x ELSE x

\* numpy / h5py integer indexing along an axis of length n: negative indices
\* count from the end, anything else raises IndexError
InRange(i, n) == -n <= i /\ i < n

(***************************************************************************)
(* Outcomes of a call on the handle: the handle after the call, the value  *)
(* returned (or the exception raised and the step that raised it), the     *)
(* number of load_data executions and whether one of them ran while a data *)
(* handle was still open.                                                  *)
(***************************************************************************)
Returned(h, v, n, re) ==
    [hy |-> h, ret |-> v, exc |-> "none", loads |-> n, reopened |-> re]
Raised(h, e, at, n, re) ==
    [hy |-> h, ret |-> [kind |-> "raised", at |-> at], exc |-> e, loads |-> n,
     reopened |-> re]

HandleOpen(h) == h.data # None \/ h.hdf_obj # None

(***************************************************************************)
(* HyTools.load_data, base.py 109-126                                      *)
(***************************************************************************)
\* load_data storing the byte offset its docstring speaks of
load_dataOffset(h, f) ==
    IF h.file_type = "envi" THEN
        IF f.exists
        THEN [hy |-> [h EXCEPT !.data = "memmap", !.offset = 1], exc |-> "none"]
        ELSE [hy |-> h, exc |-> "FileNotFoundError"]
    ELSE IF h.file_type = "neon" THEN
        IF ~f.exists
        THEN [hy |-> h, exc |-> "OSError"]
        ELSE IF ~f.has_dataset
        THEN [hy |-> [h EXCEPT !.hdf_obj = "File"], exc |-> "KeyError"]
        ELSE [hy |-> [h EXCEPT !.hdf_obj = "File", !.data = "Dataset"],
              exc |-> "none"]
    ELSE [hy |-> h, exc |-> "none"]

load_data(h, f) ==
    IF h.file_type = "envi" THEN
        IF f.exists
        THEN [hy |-> [h EXCEPT !.data = "memmap"], exc |-> "none"]
        ELSE [hy |-> h, exc |-> "FileNotFoundError"]
    ELSE IF h.file_type = "neon" THEN
        IF ~f.exists
        THEN [hy |-> h, exc |-> "OSError"]
        ELSE IF ~f.has_dataset
        THEN [hy |-> [h EXCEPT !.hdf_obj = "File"], exc |-> "KeyError"]
        ELSE [hy |-> [h EXCEPT !.hdf_obj = "File", !.data = "Dataset"],
              exc |-> "none"]
    ELSE [hy |-> h, exc |-> "none"]

(***************************************************************************)
(* HyTools.close_data, base.py 128-137                                     *)
(***************************************************************************)
close_data(h) ==
    IF h.file_type = "envi" THEN
        [hy |-> [h EXCEPT !.data = None], exc |-> "none"]
    ELSE IF h.file_type = "neon" THEN
        IF h.hdf_obj = None
        THEN [hy |-> h, exc |-> "AttributeError"]
        ELSE [hy |-> [h EXCEPT !.hdf_obj = None, !.data = None], exc |-> "none"]
    ELSE [hy |-> [h EXCEPT !.data = None], exc |-> "none"]

(***************************************************************************)
(* The read step of each accessor: whether indexing the open data handle   *)
(* succeeds.  Integer indices outside the axis raise IndexError; slices    *)
(* (get_chunk) are clipped by the array library and never raise.           *)
(***************************************************************************)
\* io/envi.py envi_read_band / envi_read_line / envi_read_column /
\* envi_read_pixels / envi_read_chunk index the memmap the same way
envi_read_band_ok(h, index) == InRange(index, h.bands)
envi_read_line_ok(h, index) == InRange(index, h.lines)
envi_read_column_ok(h, index) == InRange(index, h.columns)
envi_read_pixels_ok(h, ls, cs) ==
    /\ Len(ls) = Len(cs)
    /\ \A i \in DOMAIN ls : InRange(ls[i], h.lines) /\ InRange(cs[i], h.columns)
envi_read_chunk_ok(h, col_start, col_end, line_start, line_end) == TRUE

\* self.data[:,:,index], self.data[index,:,:], self.data[:,index,:],
\* self.data[line,column,:] over zip(lines,columns), self.data[a:b,c:d,:]
neon_band_ok(h, index) == InRange(index, h.bands)
neon_line_ok(h, index) == InRange(index, h.lines)
neon_column_ok(h, index) == InRange(index, h.columns)
neon_pixels_ok(h, ls, cs) ==
    \A i \in 1..(IF Len(ls) <= Len(cs) THEN Len(ls) ELSE Len(cs)) :
        InRange(ls[i], h.lines) /\ InRange(cs[i], h.columns)
neon_chunk_ok(h, col_start, col_end, line_start, line_end) == TRUE

(***************************************************************************)
(* The acquire / read / release sequence the five accessors share:         *)
(* self.load_data(); the backend's read; self.close_data(); return.        *)
(* neon_ok / envi_ok say whether the backend's read succeeds.  With a      *)
(* file_type that is neither backend no branch binds the result and the    *)
(* return statement raises UnboundLocalError.                              *)
(***************************************************************************)
\* the value v of a read with the steps that produced it
WithSteps(v, steps) ==
    [k \in DOMAIN v \cup {"steps"} |-> IF k = "steps" THEN steps ELSE v[k]]

\* a read that byte swaps on every backend
ReadStepsAnyBackend(h, f) ==
    <<"load_data", "read">>
    \o (IF h.endianness # f.byteorder THEN <<"byteswap">> ELSE <<>>)
    \o <<"close_data">>

\* the steps of one successful read: for the flat-binary backend the result
\* of envi_read_* is byte swapped when self.endianness != sys.byteorder
ReadSteps(h, f) ==
    <<"load_data", "read">>
    \o (IF h.file_type = "envi" /\ h.endianness # f.byteorder
        THEN <<"byteswap">> ELSE <<>>)
    \o <<"close_data">>

AcquireReadRelease(h, f, neon_ok, envi_ok, v) ==
    LET re == HandleOpen(h)
        ld == load_data(h, f)
    IN  IF ld.exc # "none" THEN Raised(ld.hy, ld.exc, "load_data", 1, re)
        ELSE IF ld.hy.file_type = "neon" /\ ~neon_ok
        THEN Raised(ld.hy, "IndexError", "read", 1, re)
        ELSE IF ld.hy.file_type = "envi" /\ ~envi_ok
        THEN Raised(ld.hy, "IndexError", "read", 1, re)
        ELSE LET cd == close_data(ld.hy)
             IN  IF cd.exc # "none" THEN Raised(cd.hy, cd.exc, "close_data", 1, re)
                 ELSE IF cd.hy.file_type \notin {"neon", "envi"}
                 THEN Raised(cd.hy, "UnboundLocalError", "return", 1, re)
                 ELSE Returned(cd.hy, WithSteps(v, ReadSteps(h, f)), 1, re)

(***************************************************************************)
(* The elements a read returns.                                            *)
(*                                                                         *)
(* Cell is the raster's content: the value of band b of pixel (l, c), one  *)
(* distinct 16-bit number per element.  The container dataset is addressed *)
(* (line, column, band) in native order.  The flat-binary file holds the   *)
(* elements in the order of its interleave, each in the declared byte      *)
(* order; np.memmap reads them in native order, so an element of a file    *)
(* whose declared order is not the platform's arrives byte swapped.        *)
(***************************************************************************)
byteswap(x) == (x % 256) * 256 + (x \div 256)

Cell(h, l, c, b) == 1 + b + h.bands * (c + h.columns * l)

DatasetAt(h, l, c, b) == Cell(h, l, c, b)

\* the element (l, c, b) written at flat position k of the payload
CellAtFlat(h, k) ==
    LET L == h.lines
        C == h.columns
        B == h.bands
    IN  CASE h.interleave = "bsq" -> Cell(h, (k % (L * C)) \div C, k % C, k \div (L * C))
          [] h.interleave = "bil" -> Cell(h, k \div (B * C), k % C, (k % (B * C)) \div C)
          [] h.interleave = "bip" -> Cell(h, k \div (C * B), (k % (C * B)) \div B, k % B)

MemmapAt(h, f, k) ==
    IF h.endianness # f.byteorder THEN byteswap(CellAtFlat(h, k)) ELSE CellAtFlat(h, k)

\* the flat position the interleave codec reads for band b of pixel (l, c)
FlatIndex(h, l, c, b) ==
    CASE h.interleave = "bsq" -> b * h.lines * h.columns + l * h.columns + c
      [] h.interleave = "bil" -> l * h.bands * h.columns + b * h.columns + c
      [] h.interleave = "bip" -> l * h.columns * h.bands + c * h.bands + b

\* a non-negative array index for an integer index in range
Norm(i, n) == IF i < 0 THEN i + n ELSE i

\* the indices start:end selects along an axis of length n (start, end >= 0)
Slice(start, end, n) ==
    LET lo == IF start <= n THEN start ELSE n
        hi == IF end <= n THEN end ELSE n
    IN  [i \in 0..(hi - lo - 1) |-> lo + i]

Rows(n) == 0..(n - 1)

\* io/envi.py: the codec's selections from the memmap, in canonical shape
envi_read_band(h, f, index) ==
    [l \in Rows(h.lines) |-> [c \in Rows(h.columns) |->
        MemmapAt(h, f, FlatIndex(h, l, c, Norm(index, h.bands)))]]

envi_read_line(h, f, index) ==
    [c \in Rows(h.columns) |-> [b \in Rows(h.bands) |->
        MemmapAt(h, f, FlatIndex(h, Norm(index, h.lines), c, b))]]

envi_read_column(h, f, index) ==
    [l \in Rows(h.lines) |-> [b \in Rows(h.bands) |->
        MemmapAt(h, f, FlatIndex(h, l, Norm(index, h.columns), b))]]

envi_read_pixels(h, f, ls, cs) ==
    [i \in Rows(Len(ls)) |-> [b \in Rows(h.bands) |->
        MemmapAt(h, f, FlatIndex(h, Norm(ls[i + 1], h.lines),
                                 Norm(cs[i + 1], h.columns), b))]]

envi_read_chunk(h, f, col_start, col_end, line_start, line_end) ==
    LET ys == Slice(line_start, line_end, h.lines)
        xs == Slice(col_start, col_end, h.columns)
    IN  [i \in DOMAIN ys |-> [j \in DOMAIN xs |-> [b \in Rows(h.bands) |->
            MemmapAt(h, f, FlatIndex(h, ys[i], xs[j], b))]]]

\* base.py 188, 236-239, 260, 281, 305: the selections from the dataset
neon_band(h, index) ==
    [l \in Rows(h.lines) |-> [c \in Rows(h.columns) |->
        DatasetAt(h, l, c, Norm(index, h.bands))]]

neon_line(h, index) ==
    [c \in Rows(h.columns) |-> [b \in Rows(h.bands) |->
        DatasetAt(h, Norm(index, h.lines), c, b)]]

\* a column read that selects along the line axis
neon_columnAlongLines(h, index) ==
    [c \in Rows(h.columns) |-> [b \in Rows(h.bands) |->
        DatasetAt(h, Norm(index, h.lines), c, b)]]

neon_column(h, index) ==
    [l \in Rows(h.lines) |-> [b \in Rows(h.bands) |->
        DatasetAt(h, l, Norm(index, h.columns), b)]]

\* a pixel read that returns the rows last to first
neon_pixelsReversed(h, ls, cs) ==
    LET n == IF Len(ls) <= Len(cs) THEN Len(ls) ELSE Len(cs)
    IN  [i \in Rows(n) |-> [b \in Rows(h.bands) |->
            DatasetAt(h, Norm(ls[n - i], h.lines), Norm(cs[n - i], h.columns), b)]]

neon_pixels(h, ls, cs) ==
    [i \in Rows(IF Len(ls) <= Len(cs) THEN Len(ls) ELSE Len(cs)) |->
        [b \in Rows(h.bands) |->
            DatasetAt(h, Norm(ls[i + 1], h.lines), Norm(cs[i + 1], h.columns), b)]]

neon_chunk(h, col_start, col_end, line_start, line_end) ==
    LET ys == Slice(line_start, line_end, h.lines)
        xs == Slice(col_start, col_end, h.columns)
    IN  [i \in DOMAIN ys |-> [j \in DOMAIN xs |-> [b \in Rows(h.bands) |->
            DatasetAt(h, ys[i], xs[j], b)]]]

\* ndarray.byteswap() applied n times to every element of an array of
\* depth dimensions
RECURSIVE Swapped(_, _, _)
Swapped(a, depth, n) ==
    IF n = 0 THEN a
    ELSE IF depth = 0 THEN Swapped(byteswap(a), 0, n - 1)
    ELSE [i \in DOMAIN a |-> Swapped(a[i], depth - 1, n)]

Count(steps, step) == Cardinality({i \in DOMAIN steps : steps[i] = step})

\* the array an unmasked get_band / get_line / get_column / get_pixels /
\* get_chunk returned: the backend's selection, byte swapped as often as
\* the read swapped it
Elements(h, f, ret) ==
    LET n == Count(ret.steps, "byteswap")
        neon == h.file_type = "neon"
    IN  CASE ret.kind = "band" ->
                IF neon THEN neon_band(h, ret.index)
                ELSE Swapped(envi_read_band(h, f, ret.index), 2, n)
          [] ret.kind = "line" ->
                IF neon THEN neon_line(h, ret.index)
                ELSE Swapped(envi_read_line(h, f, ret.index), 2, n)
          [] ret.kind = "column" ->
                IF neon THEN neon_column(h, ret.index)
                ELSE Swapped(envi_read_column(h, f, ret.index), 2, n)
          [] ret.kind = "pixels" ->
                IF neon THEN neon_pixels(h, ret.lines, ret.columns)
                ELSE Swapped(envi_read_pixels(h, f, ret.lines, ret.columns), 2, n)
          [] ret.kind = "chunk" ->
                IF neon THEN neon_chunk(h, ret.col_start, ret.col_end,
                                        ret.line_start, ret.line_end)
                ELSE Swapped(envi_read_chunk(h, f, ret.col_start, ret.col_end,
                                             ret.line_start, ret.line_end), 3, n)

(***************************************************************************)
(* HyTools.wave_to_band, base.py 156-173.  np.argmin returns the first     *)
(* index of the minimum; band indices are zero based.  The wavelengths of  *)
(* a handle no header has populated are the empty list of __init__, which  *)
(* has no max().                                                           *)
(***************************************************************************)
OutOfRange(h, wave) == wave > SeqMax(h.wavelengths) \/ wave < SeqMin(h.wavelengths)

\* an argmin that returns the last index of the minimum
ArgMinLast(ws, wave) ==
    (CHOOSE i \in DOMAIN ws :
        /\ \A j \in DOMAIN ws : Abs(ws[i] - wave) <= Abs(ws[j] - wave)
        /\ \A j \in DOMAIN ws : Abs(ws[j] - wave) = Abs(ws[i] - wave) => j <= i) - 1

ArgMin(ws, wave) ==
    (CHOOSE i \in DOMAIN ws :
        /\ \A j \in DOMAIN ws : Abs(ws[i] - wave) <= Abs(ws[j] - wave)
        /\ \A j \in DOMAIN ws : Abs(ws[j] - wave) = Abs(ws[i] - wave) => i <= j) - 1

wave_to_band(h, wave) ==
    IF Len(h.wavelengths) = 0
    THEN Raised(h, "AttributeError", "range", 0, FALSE)
    ELSE IF OutOfRange(h, wave)
    THEN Returned(h, NoneRet, 0, FALSE)
    ELSE Returned(h, [kind |-> "int", v |-> ArgMin(h.wavelengths, wave)], 0, FALSE)

(***************************************************************************)
(* HyTools.get_band, base.py 175-198                                       *)
(***************************************************************************)
get_band(h, f, index, mask) ==
    LET r == AcquireReadRelease(h, f, neon_band_ok(h, index),
                                envi_read_band_ok(h, index),
                                [kind |-> "band", index |-> index, mask |-> mask])
    IN  IF r.exc # "none" THEN r
        ELSE IF mask # None /\ mask \notin DOMAIN r.hy.mask
        THEN Raised(r.hy, "KeyError", "mask", r.loads, r.reopened)
        ELSE r

(***************************************************************************)
(* HyTools.get_wave, base.py 201-221                                       *)
(***************************************************************************)
get_wave(h, f, wave, mask) ==
    IF Len(h.wavelengths) = 0
    THEN Raised(h, "AttributeError", "range", 0, FALSE)
    ELSE IF OutOfRange(h, wave)
    THEN Returned(h, NoneRet, 0, FALSE)
    ELSE get_band(h, f, ArgMin(h.wavelengths, wave), mask)

(***************************************************************************)
(* HyTools.get_pixels, get_line, get_column, get_chunk, base.py 223-313    *)
(***************************************************************************)
get_pixels(h, f, ls, cs) ==
    AcquireReadRelease(h, f, neon_pixels_ok(h, ls, cs), envi_read_pixels_ok(h, ls, cs),
                       [kind |-> "pixels", lines |-> ls, columns |-> cs])

get_line(h, f, index) ==
    AcquireReadRelease(h, f, neon_line_ok(h, index), envi_read_line_ok(h, index),
                       [kind |-> "line", index |-> index])

get_column(h, f, index) ==
    AcquireReadRelease(h, f, neon_column_ok(h, index), envi_read_column_ok(h, index),
                       [kind |-> "column", index |-> index])

get_chunk(h, f, col_start, col_end, line_start, line_end) ==
    AcquireReadRelease(h, f,
        neon_chunk_ok(h, col_start, col_end, line_start, line_end),
        envi_read_chunk_ok(h, col_start, col_end, line_start, line_end),
        [kind |-> "chunk", col_start |-> col_start, col_end |-> col_end,
         line_start |-> line_start, line_end |-> line_end])

(***************************************************************************)
(* HyTools.ndi, base.py 316-337.  The two operands are read one after the  *)
(* other; arithmetic on a None operand raises TypeError.                   *)
(***************************************************************************)
ndi(h, f, wave1, wave2, mask) ==
    LET r1 == get_wave(h, f, wave1, None)
    IN  IF r1.exc # "none" THEN r1
        ELSE
        LET r2 == get_wave(r1.hy, f, wave2, None)
            n == r1.loads + r2.loads
            re == r1.reopened \/ r2.reopened
        IN  IF r2.exc # "none" THEN Raised(r2.hy, r2.exc, r2.ret.at, n, re)
            ELSE IF r1.ret = NoneRet \/ r2.ret = NoneRet
            THEN Raised(r2.hy, "TypeError", "arithmetic", n, re)
            ELSE IF mask # None /\ mask \notin DOMAIN r2.hy.mask
            THEN Raised(r2.hy, "KeyError", "mask", n, re)
            ELSE Returned(r2.hy, [kind |-> "ndi", a |-> r1.ret.index,
                                  b |-> r2.ret.index, mask |-> mask,
                                  steps |-> r1.ret.steps \o r2.ret.steps], n, re)

(***************************************************************************)
(* HyTools.set_mask, base.py 339-343: the array is stored as given.        *)
(***************************************************************************)
WithMask(m, name, array) ==
    [n \in DOMAIN m \cup {name} |-> IF n = name THEN array ELSE m[n]]

set_mask(h, mask, name) ==
    Returned([h EXCEPT !.mask = WithMask(h.mask, name, mask)], NoneRet, 0, FALSE)

(***************************************************************************)
(* HyTools.gen_mask, base.py 345-352.  The masker is the caller's; the     *)
(* ones modelled are a predicate that reads nothing ("const"), the         *)
(* no-data predicate of read_file, base.py 84: get_band(0) != no_data, and *)
(* the same predicate over the first line only ("line0"), whose result has *)
(* one entry per column.                                                   *)
(***************************************************************************)
Masker(h, f, masker) ==
    IF masker = "band0"
    THEN LET r == get_band(h, f, 0, None)
         IN  IF r.exc # "none" THEN r
             ELSE Returned(r.hy, [shape |-> <<h.lines, h.columns>>, of |-> "band0"],
                           r.loads, r.reopened)
    ELSE IF masker = "line0"
    THEN LET r == get_line(h, f, 0)
         IN  IF r.exc # "none" THEN r
             ELSE Returned(r.hy, [shape |-> <<h.columns>>, of |-> "line0"],
                           r.loads, r.reopened)
    ELSE Returned(h, [shape |-> <<h.lines, h.columns>>, of |-> "const"], 0, FALSE)

gen_mask(h, f, masker, name) ==
    LET r == Masker(h, f, masker)
    IN  IF r.exc # "none" THEN r
        ELSE Returned([r.hy EXCEPT !.mask = WithMask(r.hy.mask, name, r.ret)],
                      NoneRet, r.loads, r.reopened)

(***************************************************************************)
(* Iterator.__init__, base.py 377-397.  hy_obj names the one handle the    *)
(* cursor is bound to.                                                     *)
(***************************************************************************)
Iterator_init(by, chunk_size) ==
    [chunk_size |-> chunk_size, by |-> by,
     current_column |-> -1, current_line |-> -1, current_band |-> -1,
     complete |-> FALSE, hy_obj |-> "hy_obj"]

(***************************************************************************)
(* Iterator.read_next, base.py 399-442: first the counters and complete,   *)
(* base.py 403-439 (Advance: the cursor after the update and the call it   *)
(* is about to make), then the call on the handle.  chunk_size is (Y,X):   *)
(* chunk_size[0] is chunk_size[1] here, chunk_size[1] is chunk_size[2].    *)
(***************************************************************************)
\* AdvanceLine with complete set one line late
AdvanceLineLate(it, h) ==
    LET n == it.current_line + 1
    IN  [it |-> [it EXCEPT !.current_line = n,
                           !.complete = IF n = h.lines THEN TRUE ELSE @],
         req |-> [op |-> "get_line", index |-> n]]

AdvanceLine(it, h) ==
    LET n == it.current_line + 1
    IN  [it |-> [it EXCEPT !.current_line = n,
                           !.complete = IF n = h.lines - 1 THEN TRUE ELSE @],
         req |-> [op |-> "get_line", index |-> n]]

AdvanceColumn(it, h) ==
    LET n == it.current_column + 1
    IN  [it |-> [it EXCEPT !.current_column = n,
                           !.complete = IF n = h.columns - 1 THEN TRUE ELSE @],
         req |-> [op |-> "get_column", index |-> n]]

\* a band step that recomputes complete on every call
AdvanceBandRecompute(it, h) ==
    LET n == it.current_band + 1
    IN  [it |-> [it EXCEPT !.current_band = n, !.complete = (n = h.bands - 1)],
         req |-> [op |-> "get_band", index |-> n]]

AdvanceBand(it, h) ==
    LET n == it.current_band + 1
    IN  [it |-> [it EXCEPT !.current_band = n,
                           !.complete = IF n = h.bands - 1 THEN TRUE ELSE @],
         req |-> [op |-> "get_band", index |-> n]]

\* AdvanceChunk with x_end left unclipped: the last column of tiles is padded
AdvanceChunkNoClip(it, h) ==
    LET first == it.current_column = -1
        c1 == IF first THEN 0 ELSE it.current_column + it.chunk_size[2]
        l1 == IF first THEN it.current_line + 1 ELSE it.current_line
        wrap == c1 >= h.columns
        c2 == IF wrap THEN 0 ELSE c1
        l2 == IF wrap THEN l1 + it.chunk_size[1] ELSE l1
        y_end == IF l2 + it.chunk_size[1] >= h.lines
                 THEN h.lines ELSE l2 + it.chunk_size[1]
        x_end == c2 + it.chunk_size[2]
    IN  [it |-> [it EXCEPT !.current_column = c2, !.current_line = l2,
                           !.complete = IF y_end = h.lines /\ x_end = h.columns
                                        THEN TRUE ELSE @],
         req |-> [op |-> "get_chunk", col_start |-> c2, col_end |-> x_end,
                  line_start |-> l2, line_end |-> y_end]]

\* AdvanceChunk with complete set at the bottom row or the right column
AdvanceChunkOr(it, h) ==
    LET first == it.current_column = -1
        c1 == IF first THEN 0 ELSE it.current_column + it.chunk_size[2]
        l1 == IF first THEN it.current_line + 1 ELSE it.current_line
        wrap == c1 >= h.columns
        c2 == IF wrap THEN 0 ELSE c1
        l2 == IF wrap THEN l1 + it.chunk_size[1] ELSE l1
        y_end == IF l2 + it.chunk_size[1] >= h.lines
                 THEN h.lines ELSE l2 + it.chunk_size[1]
        x_end == IF c2 + it.chunk_size[2] >= h.columns
                 THEN h.columns ELSE c2 + it.chunk_size[2]
    IN  [it |-> [it EXCEPT !.current_column = c2, !.current_line = l2,
                           !.complete = IF y_end = h.lines \/ x_end = h.columns
                                        THEN TRUE ELSE @],
         req |-> [op |-> "get_chunk", col_start |-> c2, col_end |-> x_end,
                  line_start |-> l2, line_end |-> y_end]]

\* AdvanceChunk moving to the next row of tiles by the column step
AdvanceChunkRowByColumnStep(it, h) ==
    LET first == it.current_column = -1
        c1 == IF first THEN it.current_column + 1
                       ELSE it.current_column + it.chunk_size[2]
        l1 == IF first THEN it.current_line + 1 ELSE it.current_line
        wrap == c1 >= h.columns
        c2 == IF wrap THEN 0 ELSE c1
        l2 == IF wrap THEN l1 + it.chunk_size[2] ELSE l1
        y_end == IF l2 + it.chunk_size[1] >= h.lines
                 THEN h.lines ELSE l2 + it.chunk_size[1]
        x_end == IF c2 + it.chunk_size[2] >= h.columns
                 THEN h.columns ELSE c2 + it.chunk_size[2]
    IN  [it |-> [it EXCEPT !.current_column = c2, !.current_line = l2,
                           !.complete = IF y_end = h.lines /\ x_end = h.columns
                                        THEN TRUE ELSE @],
         req |-> [op |-> "get_chunk", col_start |-> c2, col_end |-> x_end,
                  line_start |-> l2, line_end |-> y_end]]

\* AdvanceChunk wrapping to the next row of tiles on > columns instead of >=
AdvanceChunkWrapGt(it, h) ==
    LET first == it.current_column = -1
        c1 == IF first THEN 0 ELSE it.current_column + it.chunk_size[2]
        l1 == IF first THEN it.current_line + 1 ELSE it.current_line
        wrap == c1 > h.columns
        c2 == IF wrap THEN 0 ELSE c1
        l2 == IF wrap THEN l1 + it.chunk_size[1] ELSE l1
        y_end == IF l2 + it.chunk_size[1] >= h.lines
                 THEN h.lines ELSE l2 + it.chunk_size[1]
        x_end == IF c2 + it.chunk_size[2] >= h.columns
                 THEN h.columns ELSE c2 + it.chunk_size[2]
    IN  [it |-> [it EXCEPT !.current_column = c2, !.current_line = l2,
                           !.complete = IF y_end = h.lines /\ x_end = h.columns
                                        THEN TRUE ELSE @],
         req |-> [op |-> "get_chunk", col_start |-> c2, col_end |-> x_end,
                  line_start |-> l2, line_end |-> y_end]]

AdvanceChunk(it, h) ==
    LET first == it.current_column = -1
        c1 == IF first THEN it.current_column + 1
                       ELSE it.current_column + it.chunk_size[2]
        l1 == IF first THEN it.current_line + 1 ELSE it.current_line
        wrap == c1 >= h.columns
        c2 == IF wrap THEN 0 ELSE c1
        l2 == IF wrap THEN l1 + it.chunk_size[1] ELSE l1
        y_start == l2
        y_end == IF l2 + it.chunk_size[1] >= h.lines
                 THEN h.lines ELSE l2 + it.chunk_size[1]
        x_start == c2
        x_end == IF c2 + it.chunk_size[2] >= h.columns
                 THEN h.columns ELSE c2 + it.chunk_size[2]
    IN  [it |-> [it EXCEPT !.current_column = c2, !.current_line = l2,
                           !.complete = IF y_end = h.lines /\ x_end = h.columns
                                        THEN TRUE ELSE @],
         req |-> [op |-> "get_chunk", col_start |-> x_start, col_end |-> x_end,
                  line_start |-> y_start, line_end |-> y_end]]

Advance(it, h) ==
    CASE it.by = "line" -> AdvanceLine(it, h)
      [] it.by = "column" -> AdvanceColumn(it, h)
      [] it.by = "band" -> AdvanceBand(it, h)
      [] it.by = "chunk" -> AdvanceChunk(it, h)

Fetch(h, f, req) ==
    CASE req.op = "get_line" -> get_line(h, f, req.index)
      [] req.op = "get_column" -> get_column(h, f, req.index)
      [] req.op = "get_band" -> get_band(h, f, req.index, None)
      [] req.op = "get_chunk" -> get_chunk(h, f, req.col_start, req.col_end,
                                           req.line_start, req.line_end)

\* a read_next that puts the counters and complete back when the read raises
read_nextRollsBack(it, h, f) ==
    LET a == Advance(it, h)
        r == Fetch(h, f, a.req)
    IN  [it |-> IF r.exc # "none" THEN it ELSE a.it, req |-> a.req, r |-> r]

\* whether a header has populated the attributes of the handle
Populated(h) == h.dtype # None

\* on a handle with lines, columns, bands still None the first comparison
\* with them raises TypeError, after the counters moved
AdvanceUnpopulated(it) ==
    CASE it.by = "line" -> [it EXCEPT !.current_line = @ + 1]
      [] it.by = "column" -> [it EXCEPT !.current_column = @ + 1]
      [] it.by = "band" -> [it EXCEPT !.current_band = @ + 1]
      [] it.by = "chunk" ->
            IF it.current_column = -1
            THEN [it EXCEPT !.current_column = @ + 1, !.current_line = @ + 1]
            ELSE [it EXCEPT !.current_column = @ + it.chunk_size[2]]

read_next(it, h, f) ==
    IF ~Populated(h)
    THEN [it |-> AdvanceUnpopulated(it), req |-> [op |-> "none"],
          r |-> Raised(h, "TypeError", "arithmetic", 0, FALSE)]
    ELSE LET a == Advance(it, h)
         IN  [it |-> a.it, req |-> a.req, r |-> Fetch(h, f, a.req)]

(***************************************************************************)
(* Iterator.reset, base.py 444-450                                         *)
(***************************************************************************)
\* reset that forgets the band counter
resetNoBand(it) ==
    [it EXCEPT !.current_column = -1, !.current_line = -1, !.complete = FALSE]

reset(it) ==
    [it EXCEPT !.current_column = -1, !.current_line = -1,
               !.current_band = -1, !.complete = FALSE]

(***************************************************************************)
(* The populated handle an open leaves behind: the attributes of           *)
(* HyTools.__init__, base.py 41-70, filled from the header, no data handle *)
(* open, and the no-data mask of read_file, base.py 84, registered.        *)
(***************************************************************************)
WavesOf(bands) == [i \in 1..bands |-> 350 + 100 * i]

Handle(file_type, lines, columns, bands) ==
    [file_name |-> "raster", file_type |-> file_type, base_key |-> "site",
     lines |-> lines, columns |-> columns, bands |-> bands,
     dtype |-> "int16", interleave |-> "bil", endianness |-> "little",
     byte_order |-> 0, offset |-> 0, no_data |-> -9999,
     wavelengths |-> WavesOf(bands), bad_bands |-> <<>>,
     data |-> None, hdf_obj |-> None,
     mask |-> [n \in {"no_data"} |-> [shape |-> <<lines, columns>>, of |-> "band0"]]]

\* what load_data can find under file_name: nothing, a file, and for the
\* container backend a file with or without the reflectance dataset
FileStates(file_type) ==
    {[exists |-> FALSE, has_dataset |-> FALSE, byteorder |-> "little"],
     [exists |-> TRUE, has_dataset |-> TRUE, byteorder |-> "little"]}
    \cup IF file_type = "neon"
         THEN {[exists |-> TRUE, has_dataset |-> FALSE, byteorder |-> "little"]}
         ELSE {}

Modes == {"line", "column", "band", "chunk"}
FileTypes == <<"neon", "envi">>
ReadOps == {"get_band", "get_wave", "get_pixels", "get_line", "get_column",
            "get_chunk", "ndi", "read_next"}

NoReq == [op |-> "none"]
NoArgs == [wave |-> <<>>]
Outcome(op, args, r, req) ==
    [op |-> op, args |-> args, exc |-> r.exc, ret |-> r.ret, loads |-> r.loads,
     reopened |-> r.reopened, req |-> req]

InitWith(h, f, it) ==
    /\ hy_obj = h
    /\ fs = f
    /\ iterator = it
    /\ last = Outcome("open", NoArgs, Returned(h, NoneRet, 0, FALSE), NoReq)
    /\ calls = 0
    /\ over = 0
    /\ was_reset = FALSE
    /\ second = None

Init ==
    \E t \in DOMAIN FileTypes, lines \in 1..MaxDim, columns \in 1..MaxDim, by \in Modes :
    \E f \in FileStates(FileTypes[t]) :
        InitWith(Handle(FileTypes[t], lines, columns, 4), f,
                 Iterator_init(by, <<1, 1>>))

(***************************************************************************)
(* The calls a client makes on the handle.  A call that raises leaves the  *)
(* handle as the raising statement found it.                               *)
(***************************************************************************)
HandleCall(op, args, r) ==
    /\ hy_obj' = r.hy
    /\ last' = Outcome(op, args, r, NoReq)
    /\ UNCHANGED <<fs, iterator, calls, over, was_reset, second>>

MaskArgs == {None, "user"}
QueryWaves == {400, 560}

WaveToBand ==
    \E wave \in QueryWaves :
        HandleCall("wave_to_band", [wave |-> <<wave>>], wave_to_band(hy_obj, wave))

GetBand ==
    \E index \in {0, hy_obj.bands}, mask \in MaskArgs :
        HandleCall("get_band", NoArgs, get_band(hy_obj, fs, index, mask))

GetWave ==
    \E wave \in QueryWaves, mask \in MaskArgs :
        HandleCall("get_wave", [wave |-> <<wave>>], get_wave(hy_obj, fs, wave, mask))

GetPixels ==
    \E p \in {<<0, 0>>, <<hy_obj.lines - 1, hy_obj.columns>>} :
        HandleCall("get_pixels", NoArgs,
                   get_pixels(hy_obj, fs, <<0, p[1]>>, <<p[2], 0>>))

GetLine ==
    \E index \in 0..hy_obj.lines :
        HandleCall("get_line", NoArgs, get_line(hy_obj, fs, index))

GetColumn ==
    \E index \in 0..hy_obj.columns :
        HandleCall("get_column", NoArgs, get_column(hy_obj, fs, index))

GetChunk ==
    \E past \in {0, 1} :
        HandleCall("get_chunk", NoArgs,
                   get_chunk(hy_obj, fs, 0, hy_obj.columns + past, 0, hy_obj.lines + past))

Ndi ==
    \E wave1 \in {560, 850}, wave2 \in {660}, mask \in MaskArgs :
        HandleCall("ndi", [wave |-> <<wave1, wave2>>],
                   ndi(hy_obj, fs, wave1, wave2, mask))

SetMask ==
    \E array \in {[shape |-> <<hy_obj.lines, hy_obj.columns>>, of |-> "array"]} :
        HandleCall("set_mask", NoArgs, set_mask(hy_obj, array, "user"))

GenMask ==
    \E masker \in {"band0", "const"} :
        HandleCall("gen_mask", NoArgs, gen_mask(hy_obj, fs, masker, "user"))

(***************************************************************************)
(* The calls a client makes on the cursor.  read_next has updated the      *)
(* counters and complete before the handle is read, so they stay updated   *)
(* when the read raises.                                                   *)
(***************************************************************************)
ReadNext ==
    /\ iterator.complete => over < MaxOver
    /\ ~Populated(hy_obj) => calls <= MaxOver
    /\ LET n == read_next(iterator, hy_obj, fs)
       IN  /\ iterator' = n.it
           /\ hy_obj' = n.r.hy
           /\ last' = Outcome("read_next", NoArgs, n.r, n.req)
    /\ calls' = calls + 1
    /\ over' = IF iterator.complete THEN over + 1 ELSE over
    /\ UNCHANGED <<fs, was_reset, second>>

Reset ==
    /\ iterator' = reset(iterator)
    /\ last' = Outcome("reset", NoArgs, Returned(hy_obj, NoneRet, 0, FALSE), NoReq)
    /\ calls' = 0
    /\ over' = 0
    /\ was_reset' = TRUE
    /\ UNCHANGED <<hy_obj, fs, second>>

Next ==
    \/ WaveToBand
    \/ GetBand
    \/ GetWave
    \/ GetPixels
    \/ GetLine
    \/ GetColumn
    \/ GetChunk
    \/ Ndi
    \/ SetMask
    \/ GenMask
    \/ ReadNext

Spec == Init /\ [][Next]_vars

(***************************************************************************)
(* The cursor alone, over every small raster and chunk size.               *)
(***************************************************************************)
InitIter ==
    \E t \in DOMAIN FileTypes, by \in Modes :
    \E lines \in 1..IterMaxDim, columns \in 1..IterMaxDim, bands \in 1..IterMaxDim :
    \E f \in FileStates(FileTypes[t]) :
    \E chunk_size \in IF by = "chunk"
                      THEN (1..IterMaxStep) \X (1..IterMaxStep) ELSE {<<100, 100>>} :
        InitWith(Handle(FileTypes[t], lines, columns, bands), f,
                 Iterator_init(by, chunk_size))

NextIter ==
    \/ ReadNext
    \/ Reset

SpecIter == InitIter /\ [][NextIter]_vars

(***************************************************************************)
(* The cursor over the 250 x 250 raster with the default chunk size of     *)
(* HyTools.iterate, base.py 140.                                           *)
(***************************************************************************)
InitExample ==
    \E t \in DOMAIN FileTypes, by \in Modes :
        InitWith(Handle(FileTypes[t], 250, 250, 4),
                 [exists |-> TRUE, has_dataset |-> TRUE, byteorder |-> "little"],
                 Iterator_init(by, <<100, 100>>))

SpecExample == InitExample /\ [][NextIter]_vars

(***************************************************************************)
(* HyTools.__init__, base.py 38-70, and HyTools.read_file, base.py 72-85.  *)
(* read_file takes no file_name parameter: the name it assigns is the      *)
(* module global file_name, and the assignment raises NameError when there *)
(* is none.  open_envi / open_neon populate the attributes from the        *)
(* header.  An unrecognized file_type is only printed, and the no-data     *)
(* mask is then computed from get_band(0) as for any other type.           *)
(***************************************************************************)
EmptyMasks == [n \in {} |-> None]

Blank ==
    [file_name |-> None, file_type |-> None, base_key |-> None,
     lines |-> None, columns |-> None, bands |-> None,
     dtype |-> None, interleave |-> None, endianness |-> None,
     byte_order |-> None, offset |-> 0, no_data |-> None,
     wavelengths |-> <<>>, bad_bands |-> <<>>,
     data |-> None, hdf_obj |-> None, mask |-> EmptyMasks]

\* io/envi.py open_envi, io/neon.py open_neon: the attributes of the header
open_header(h, header) ==
    [Handle(h.file_type, header.lines, header.columns, header.bands)
        EXCEPT !.file_name = h.file_name, !.mask = h.mask]

\* read_file opening an unrecognized file_type as the default one
read_fileDefault(h, f, file_name, file_type, header) ==
    IF file_name = None THEN Raised(h, "NameError", "file_name", 0, FALSE)
    ELSE LET h1 == [h EXCEPT !.file_name = file_name, !.file_type = "envi"]
             r == get_band(open_header(h1, header), f, 0, None)
         IN  IF r.exc # "none" THEN r
             ELSE Returned([r.hy EXCEPT !.mask = WithMask(@, "no_data",
                               [shape |-> <<r.hy.lines, r.hy.columns>>, of |-> "band0"])],
                           NoneRet, r.loads, r.reopened)

read_file(h, f, file_name, file_type, header) ==
    IF file_name = None THEN Raised(h, "NameError", "file_name", 0, FALSE)
    ELSE LET h1 == [h EXCEPT !.file_name = file_name, !.file_type = file_type]
             h2 == IF file_type \in {"envi", "neon"} THEN open_header(h1, header) ELSE h1
             r == get_band(h2, f, 0, None)
         IN  IF r.exc # "none" THEN r
             ELSE Returned([r.hy EXCEPT !.mask = WithMask(@, "no_data",
                               [shape |-> <<r.hy.lines, r.hy.columns>>, of |-> "band0"])],
                           NoneRet, r.loads, r.reopened)

(***************************************************************************)
(* The open: a constructed handle, read_file with any file_type before    *)
(* the cursor has moved, and the first unit by every read operation.       *)
(***************************************************************************)
InitOpen ==
    \E by \in Modes, f \in FileStates("neon") :
        InitWith(Blank, f, Iterator_init(by, <<1, 1>>))

ReadFile ==
    /\ hy_obj.file_type = None
    /\ calls = 0
    /\ \E file_name \in {None, "raster"}, file_type \in {"neon", "envi", "tiff"} :
       \E lines \in 1..MaxDim, columns \in 1..MaxDim :
          HandleCall("read_file", [wave |-> <<>>, file_type |-> file_type],
                     read_file(hy_obj, fs, file_name, file_type,
                               [lines |-> lines, columns |-> columns, bands |-> 4]))

FirstWaveToBand ==
    HandleCall("wave_to_band", [wave |-> <<560>>], wave_to_band(hy_obj, 560))

FirstBand ==
    \E mask \in {None, "no_data"} :
        HandleCall("get_band", NoArgs, get_band(hy_obj, fs, 0, mask))

FirstWave ==
    HandleCall("get_wave", [wave |-> <<560>>], get_wave(hy_obj, fs, 560, None))

FirstPixels ==
    HandleCall("get_pixels", NoArgs, get_pixels(hy_obj, fs, <<0>>, <<0>>))

FirstLine ==
    HandleCall("get_line", NoArgs, get_line(hy_obj, fs, 0))

FirstColumn ==
    HandleCall("get_column", NoArgs, get_column(hy_obj, fs, 0))

FirstChunk ==
    HandleCall("get_chunk", NoArgs, get_chunk(hy_obj, fs, 0, 1, 0, 1))

FirstNdi ==
    HandleCall("ndi", [wave |-> <<560, 660>>], ndi(hy_obj, fs, 560, 660, None))

NextOpen ==
    \/ ReadFile
    \/ FirstWaveToBand
    \/ FirstBand
    \/ FirstWave
    \/ FirstPixels
    \/ FirstLine
    \/ FirstColumn
    \/ FirstChunk
    \/ FirstNdi
    \/ ReadNext

SpecOpen == InitOpen /\ [][NextOpen]_vars

(***************************************************************************)
(* The two wavelength resolvers over every short wavelength list, sorted   *)
(* or not, with or without repeats, and the list 450, 550, 650, 750.       *)
(***************************************************************************)
RECURSIVE SeqsUpTo(_, _)
SeqsUpTo(S, n) ==
    IF n = 0 THEN {<<>>}
    ELSE LET shorter == SeqsUpTo(S, n - 1)
         IN  shorter \cup {Append(ws, x) : ws \in shorter, x \in S}

WaveLists == (SeqsUpTo({450, 550, 650}, WaveMaxLen) \ {<<>>}) \cup {WavesOf(4)}
WaveQueries == {400, 450, 500, 560, 600, 650, 750, 1000}

InitWave ==
    \E t \in DOMAIN FileTypes, ws \in WaveLists :
        InitWith([Handle(FileTypes[t], 1, 1, Len(ws)) EXCEPT !.wavelengths = ws],
                 [exists |-> TRUE, has_dataset |-> TRUE, byteorder |-> "little"],
                 Iterator_init("band", <<1, 1>>))

WaveQueryToBand ==
    \E wave \in WaveQueries :
        HandleCall("wave_to_band", [wave |-> <<wave>>], wave_to_band(hy_obj, wave))

WaveQueryGet ==
    \E wave \in WaveQueries :
        HandleCall("get_wave", [wave |-> <<wave>>], get_wave(hy_obj, fs, wave, None))

NextWave ==
    \/ WaveQueryToBand
    \/ WaveQueryGet

SpecWave == InitWave /\ [][NextWave]_vars

(***************************************************************************)
(* The mask registry: set_mask and gen_mask with arrays of the raster's    *)
(* spatial shape and of other shapes, under a new name and under the name  *)
(* of the no-data mask.                                                    *)
(***************************************************************************)
MaskNames == {"user", "no_data"}

MaskShapes(h) == {<<h.lines, h.columns>>, <<h.lines + 1, h.columns>>, <<h.columns>>}

InitMask ==
    \E t \in DOMAIN FileTypes, lines \in 1..MaxDim, columns \in 1..MaxDim :
    \E f \in FileStates(FileTypes[t]) :
        InitWith(Handle(FileTypes[t], lines, columns, 4), f,
                 Iterator_init("line", <<1, 1>>))

RegisterMask ==
    \E name \in MaskNames, shape \in MaskShapes(hy_obj) :
        LET array == [shape |-> shape, of |-> "array"]
        IN  HandleCall("set_mask", [wave |-> <<>>, name |-> name, array |-> array],
                       set_mask(hy_obj, array, name))

GenerateMask ==
    \E name \in MaskNames, masker \in {"const", "band0", "line0"} :
        HandleCall("gen_mask", [wave |-> <<>>, name |-> name, masker |-> masker],
                   gen_mask(hy_obj, fs, masker, name))

NextMask ==
    \/ RegisterMask
    \/ GenerateMask

SpecMask == InitMask /\ [][NextMask]_vars

(***************************************************************************)
(* Two cursors from HyTools.iterate, base.py 140-154, on one handle, their *)
(* calls and direct reads of the handle interleaved call by call.          *)
(***************************************************************************)
InitTwo ==
    \E t \in DOMAIN FileTypes, by \in Modes, by2 \in Modes :
    \E f \in FileStates(FileTypes[t]) :
        /\ hy_obj = Handle(FileTypes[t], MaxDim, MaxDim, MaxDim)
        /\ fs = f
        /\ iterator = Iterator_init(by, <<1, 1>>)
        /\ second = [iterator |-> Iterator_init(by2, <<1, 1>>), calls |-> 0, over |-> 0]
        /\ last = Outcome("open", NoArgs, Returned(hy_obj, NoneRet, 0, FALSE), NoReq)
        /\ calls = 0
        /\ over = 0
        /\ was_reset = FALSE

\* a reset of the second cursor that resets the first cursor as well
ResetSecondAndFirst ==
    /\ second' = [iterator |-> reset(second.iterator), calls |-> 0, over |-> 0]
    /\ iterator' = reset(iterator)
    /\ last' = Outcome("reset", [wave |-> <<>>, cursor |-> 2],
                       Returned(hy_obj, NoneRet, 0, FALSE), NoReq)
    /\ UNCHANGED <<hy_obj, fs, calls, over, was_reset>>

ReadNextSecond ==
    /\ second.iterator.complete => second.over < MaxOver
    /\ LET n == read_next(second.iterator, hy_obj, fs)
       IN  /\ second' = [iterator |-> n.it, calls |-> second.calls + 1,
                         over |-> IF second.iterator.complete
                                  THEN second.over + 1 ELSE second.over]
           /\ hy_obj' = n.r.hy
           /\ last' = Outcome("read_next", [wave |-> <<>>, cursor |-> 2], n.r, n.req)
    /\ UNCHANGED <<fs, iterator, calls, over, was_reset>>

ResetSecond ==
    /\ second' = [iterator |-> reset(second.iterator), calls |-> 0, over |-> 0]
    /\ last' = Outcome("reset", [wave |-> <<>>, cursor |-> 2],
                       Returned(hy_obj, NoneRet, 0, FALSE), NoReq)
    /\ UNCHANGED <<hy_obj, fs, iterator, calls, over, was_reset>>

NextTwo ==
    \/ ReadNext
    \/ Reset
    \/ ReadNextSecond
    \/ ResetSecond
    \/ GetBand
    \/ GetLine
    \/ GetChunk

SpecTwo == InitTwo /\ [][NextTwo]_vars

(***************************************************************************)
(* Reads of healthy files of every backend, interleave and byte order, on  *)
(* platforms of either byte order, with every index of the raster.         *)
(***************************************************************************)
Interleaves == {"bsq", "bil", "bip"}
ByteOrders == <<"little", "big">>

DataHandle(file_type, interleave, byte_order, lines, columns, bands) ==
    IF file_type = "neon" THEN Handle(file_type, lines, columns, bands)
    ELSE [Handle(file_type, lines, columns, bands)
            EXCEPT !.interleave = interleave, !.byte_order = byte_order,
                   !.endianness = ByteOrders[byte_order + 1]]

InitData ==
    \E t \in DOMAIN FileTypes, by \in Modes, byteorder \in {"little", "big"} :
    \E interleave \in IF FileTypes[t] = "envi" THEN Interleaves ELSE {"bil"} :
    \E byte_order \in IF FileTypes[t] = "envi" THEN {0, 1} ELSE {0} :
    \E shape \in {<<DataMaxDim, DataMaxDim + 1>>, <<4, 5>>} :
        InitWith(DataHandle(FileTypes[t], interleave, byte_order,
                            shape[1], shape[2], 4),
                 [exists |-> TRUE, has_dataset |-> TRUE, byteorder |-> byteorder],
                 Iterator_init(by, <<2, 2>>))

\* equal-length index lists: each pixel alone, the last pixel before the
\* first, one pixel twice, and three pixels in neither raster nor index order
PixelLists(h) ==
    IF h.lines * h.columns > DataMaxDim * (DataMaxDim + 1)
    THEN {<< <<3, 1>>, <<2, 4>> >>, << <<1, 3, 0>>, <<4, 2, 4>> >>}
    ELSE LET P == Rows(h.lines) \X Rows(h.columns)
         IN  {<< <<p[1]>>, <<p[2]>> >> : p \in P}
             \cup {<< <<h.lines - 1, 0>>, <<h.columns - 1, 0>> >>,
                   << <<0, 0>>, <<h.columns - 1, h.columns - 1>> >>,
                   << <<0, h.lines - 1, 0>>, <<h.columns - 1, 0, 0>> >>}

DataGetBand ==
    \E index \in Rows(hy_obj.bands) :
        HandleCall("get_band", NoArgs, get_band(hy_obj, fs, index, None))

DataGetWave ==
    \E wave \in {460, 600} :
        HandleCall("get_wave", [wave |-> <<wave>>], get_wave(hy_obj, fs, wave, None))

DataGetPixels ==
    \E p \in PixelLists(hy_obj) :
        HandleCall("get_pixels", NoArgs, get_pixels(hy_obj, fs, p[1], p[2]))

DataGetLine ==
    \E index \in Rows(hy_obj.lines) :
        HandleCall("get_line", NoArgs, get_line(hy_obj, fs, index))

DataGetColumn ==
    \E index \in Rows(hy_obj.columns) :
        HandleCall("get_column", NoArgs, get_column(hy_obj, fs, index))

DataGetChunk ==
    \E col_start \in {0, hy_obj.columns - 1}, line_start \in {0, hy_obj.lines - 1} :
    \E col_end \in {col_start + 1, hy_obj.columns + 1} :
    \E line_end \in {line_start + 1, hy_obj.lines + 1} :
        HandleCall("get_chunk", NoArgs,
                   get_chunk(hy_obj, fs, col_start, col_end, line_start, line_end))

DataNdi ==
    \E wave1 \in {460, 850}, wave2 \in {660} :
        HandleCall("ndi", [wave |-> <<wave1, wave2>>],
                   ndi(hy_obj, fs, wave1, wave2, None))

NextData ==
    \/ DataGetBand
    \/ DataGetWave
    \/ DataGetPixels
    \/ DataGetLine
    \/ DataGetColumn
    \/ DataGetChunk
    \/ DataNdi
    \/ ReadNext

SpecData == InitData /\ [][NextData]_vars

(***************************************************************************)
(* Properties.                                                             *)
(***************************************************************************)
Tile(line, col, rows, cols) ==
    [op |-> "get_chunk", col_start |-> col, col_end |-> col + cols,
     line_start |-> line, line_end |-> line + rows]

ExampleTiles ==
    << Tile(0, 0, 100, 100),   Tile(0, 100, 100, 100),   Tile(0, 200, 100, 50),
       Tile(100, 0, 100, 100), Tile(100, 100, 100, 100), Tile(100, 200, 100, 50),
       Tile(200, 0, 50, 100),  Tile(200, 100, 50, 100),  Tile(200, 200, 50, 50) >>

IsExample ==
    /\ hy_obj.lines = 250 /\ hy_obj.columns = 250
    /\ iterator.by = "chunk" /\ iterator.chunk_size = <<100, 100>>

\* C1: over the 250 x 250 raster with chunk_size (100,100) the k-th read_next
\* of a fresh chunk cursor requests the k-th of the nine tiles 100x100,
\* 100x100, 100x50, 100x100, 100x100, 100x50, 50x100, 50x100, 50x50 at the
\* row-major origins (0,0) .. (200,200), and complete is true after the ninth
\* call and after none of the first eight.
C1_ExampleTiling ==
    (IsExample /\ ~was_reset /\ calls \in 1..9) =>
        /\ last.op = "read_next"
        /\ last.req = ExampleTiles[calls]
        /\ iterator.complete = (calls = 9)

C1_Witness ==
    /\ IsExample /\ ~was_reset /\ calls = 9
    /\ last.req = Tile(200, 200, 50, 50)
    /\ iterator.complete

\* C2: a read operation whose read step raises after load_data succeeded
\* still releases the data handle: afterwards data is None and hdf_obj is None.
C2_ReleasedAfterFailedRead ==
    (last.op \in ReadOps /\ last.exc # "none" /\ last.ret.at = "read") =>
        (hy_obj.data = None /\ hy_obj.hdf_obj = None)

\* C3: after a read operation returns normally no data handle is open, and
\* load_data never runs while an earlier data handle is still open.
C3_NoHandleBetweenCalls ==
    /\ (last.op \in ReadOps /\ last.exc = "none") =>
            (hy_obj.data = None /\ hy_obj.hdf_obj = None)
    /\ ~last.reopened

\* the grid origin of the last row or column of tiles along an axis of
\* length n cut in steps of step
LastOrigin(n, step) == ((n - 1) \div step) * step

ChunkRun == iterator.by = "chunk" /\ calls >= 1 /\ over = 0

\* C4: in chunk mode, up to the call that completes the traversal, complete
\* is true after a read_next exactly when the tile it requested has
\* line_end = lines and col_end = columns, and that tile is the bottom-right
\* tile of the grid.
C4_CompleteAtBottomRight ==
    ChunkRun =>
        /\ iterator.complete <=>
              (last.req.line_end = hy_obj.lines /\ last.req.col_end = hy_obj.columns)
        /\ iterator.complete =>
              /\ last.req.line_start = LastOrigin(hy_obj.lines, iterator.chunk_size[1])
              /\ last.req.col_start = LastOrigin(hy_obj.columns, iterator.chunk_size[2])

C4_Witness ==
    /\ ChunkRun /\ iterator.complete /\ calls > 1
    /\ hy_obj.lines % iterator.chunk_size[1] # 0
    /\ last.req.line_end = hy_obj.lines /\ last.req.col_end = hy_obj.columns

Min(a, b) == IF a <= b THEN a ELSE b

\* the origin that follows <<line, col>>: the column origin advanced by
\* col_step, wrapped to column 0 of the next row of tiles once it is >= columns
NextOrigin(line, col, chunk_size, columns) ==
    IF col + chunk_size[2] >= columns
    THEN <<line + chunk_size[1], 0>>
    ELSE <<line, col + chunk_size[2]>>

C5_Step ==
    (iterator.by = "chunk" /\ ~iterator.complete /\ calls' = calls + 1) =>
        LET q == last'.req
            row_step == iterator.chunk_size[1]
            col_step == iterator.chunk_size[2]
        IN  /\ last'.op = "read_next" /\ q.op = "get_chunk"
            /\ 0 <= q.line_start /\ q.line_start < q.line_end
            /\ q.line_end <= hy_obj.lines
            /\ 0 <= q.col_start /\ q.col_start < q.col_end
            /\ q.col_end <= hy_obj.columns
            /\ q.line_end = Min(q.line_start + row_step, hy_obj.lines)
            /\ q.col_end = Min(q.col_start + col_step, hy_obj.columns)
            /\ calls = 0 => <<q.line_start, q.col_start>> = <<0, 0>>
            /\ calls > 0 => <<q.line_start, q.col_start>> =
                   NextOrigin(last.req.line_start, last.req.col_start,
                              iterator.chunk_size, hy_obj.columns)

\* C5: in chunk mode every tile requested up to and including the completing
\* call is in bounds, non-empty and clipped to the raster; the first origin
\* is (0,0) and each later origin is the previous one advanced by col_step,
\* wrapped to column 0 of the next row of tiles when it reaches columns.
C5_TilesClippedInBounds == [][C5_Step]_vars

C5_Witness ==
    /\ ChunkRun /\ iterator.complete /\ calls >= 4
    /\ last.req.col_end - last.req.col_start < iterator.chunk_size[2]
    /\ last.req.line_end - last.req.line_start < iterator.chunk_size[1]

Dimension(h, by) ==
    CASE by = "line" -> h.lines
      [] by = "column" -> h.columns
      [] by = "band" -> h.bands

Counters(it) == [line |-> it.current_line, column |-> it.current_column,
                 band |-> it.current_band]

UnitOp == [line |-> "get_line", column |-> "get_column", band |-> "get_band"]

\* C6: in line, column and band mode the counter of the mode is k-1 after the
\* k-th read_next (-1 on a fresh cursor) and the other two stay at -1, the
\* k-th call fetches unit k-1 with the accessor of the mode, and complete is
\* true exactly from the call with k = dimension_size on.
C6_UnitTraversal ==
    iterator.by \in {"line", "column", "band"} =>
        /\ Counters(iterator) =
              [m \in {"line", "column", "band"} |->
                  IF m = iterator.by THEN calls - 1 ELSE -1]
        /\ iterator.complete <=> calls >= Dimension(hy_obj, iterator.by)
        /\ calls >= 1 =>
              /\ last.op = "read_next"
              /\ last.req = [op |-> UnitOp[iterator.by], index |-> calls - 1]

C6_Witness ==
    /\ iterator.by = "line" /\ hy_obj.lines > 1
    /\ calls = hy_obj.lines /\ iterator.complete
    /\ last.req = [op |-> "get_line", index |-> hy_obj.lines - 1]
    /\ last.exc = "none"

FirstUnit(it, h) ==
    CASE it.by = "line" -> [op |-> "get_line", index |-> 0]
      [] it.by = "column" -> [op |-> "get_column", index |-> 0]
      [] it.by = "band" -> [op |-> "get_band", index |-> 0]
      [] it.by = "chunk" ->
            Tile(0, 0, Min(it.chunk_size[1], h.lines), Min(it.chunk_size[2], h.columns))

C7_Step ==
    /\ last'.op = "reset" =>
          /\ iterator' = Iterator_init(iterator.by, iterator.chunk_size)
          /\ hy_obj' = hy_obj
          /\ last'.loads = 0
    /\ (last'.op = "read_next" /\ calls = 0) =>
          /\ iterator = Iterator_init(iterator.by, iterator.chunk_size)
          /\ last'.req = FirstUnit(iterator, hy_obj)

\* C7: reset() leaves the cursor equal to a freshly constructed cursor of the
\* same mode and chunk_size, without touching the handle or loading data, and
\* the first read_next after it requests the first unit of a fresh cursor.
C7_ResetIsFresh == [][C7_Step]_vars

C7_Witness ==
    /\ was_reset /\ calls = 1 /\ last.op = "read_next"
    /\ last.req = FirstUnit(iterator, hy_obj)
    /\ iterator.by = "band"

\* C8: when load_data raises, nothing stays open: data is None and hdf_obj
\* is None after the failed read operation.
C8_NothingOpenAfterFailedLoad ==
    (last.exc # "none" /\ last.ret.at = "load_data") =>
        (hy_obj.data = None /\ hy_obj.hdf_obj = None)

\* C9: with the raster file in place, wave_to_band, get_wave and ndi answer a
\* wavelength outside [min(wavelengths), max(wavelengths)] by returning None,
\* without raising and without loading data.
C9_OutOfRangeIsNoResult ==
    (/\ fs.exists /\ fs.has_dataset
     /\ last.op \in {"wave_to_band", "get_wave", "ndi"}
     /\ \E i \in DOMAIN last.args.wave : OutOfRange(hy_obj, last.args.wave[i])) =>
        (last.exc = "none" /\ last.ret = NoneRet /\ last.loads = 0)

Metadata(h) == [a \in DOMAIN h \ {"data", "hdf_obj", "mask"} |-> h[a]]

C10_Step ==
    /\ Metadata(hy_obj') = Metadata(hy_obj)
    /\ hy_obj'.mask # hy_obj.mask => last'.op \in {"set_mask", "gen_mask"}
    /\ last'.op \in ReadOps => hy_obj'.mask = hy_obj.mask

\* C10: no call changes the handle's metadata (file_type included), read
\* operations leave the mask registry as it was whether they return or
\* raise, and only set_mask and gen_mask change the mask registry.
C10_ReadsKeepMetadataAndMasks == [][C10_Step]_vars

C10_Witness ==
    /\ last.op \in ReadOps /\ last.exc # "none"
    /\ hy_obj.data # None
    /\ "user" \in DOMAIN hy_obj.mask

\* C11: a successful read of the flat-binary backend byte swaps what the
\* interleave codec selected exactly once when the declared byte order
\* differs from the platform's and not at all when they are equal, each swap
\* directly after the selection and before the handle is released; this holds
\* for get_band, get_wave, get_pixels, get_line, get_column, get_chunk, both
\* operands of ndi and every unit of read_next; the container backend never
\* swaps.
StepsOf(ret) == IF "steps" \in DOMAIN ret THEN ret.steps ELSE <<>>

ExpectedSwaps(h, f) ==
    IF h.file_type = "envi" /\ h.endianness # f.byteorder THEN 1 ELSE 0

C11_SwapOncePerRead ==
    (last.op \in ReadOps /\ last.exc = "none") =>
        LET steps == StepsOf(last.ret)
        IN  /\ Count(steps, "byteswap")
                = ExpectedSwaps(hy_obj, fs) * Count(steps, "read")
            /\ \A i \in DOMAIN steps :
                  steps[i] = "byteswap" =>
                      /\ i > 1 /\ steps[i - 1] = "read"
                      /\ i < Len(steps) /\ steps[i + 1] = "close_data"
            /\ \A i \in DOMAIN steps :
                  (steps[i] = "read" /\ ExpectedSwaps(hy_obj, fs) = 1) =>
                      i < Len(steps) /\ steps[i + 1] = "byteswap"

C11_Witness ==
    /\ last.op \in {"ndi", "read_next"}
    /\ last.exc = "none"
    /\ hy_obj.file_type = "envi"
    /\ hy_obj.endianness # fs.byteorder
    /\ Count(StepsOf(last.ret), "byteswap") >= 1

\* C12: read_file with a file_type other than 'envi' or 'neon' fails and
\* registers no mask, and on a handle whose file_type is neither backend no
\* read operation (get_band, get_wave, get_pixels, get_line, get_column,
\* get_chunk, ndi, read_next) returns data.
Backends == {"envi", "neon"}

ReturnsData(o) == o.exc = "none" /\ o.ret # NoneRet

C12_UnrecognizedTypeFatalAtOpen ==
    /\ (last.op = "read_file" /\ last.args.file_type \notin Backends) =>
          /\ last.exc # "none"
          /\ DOMAIN hy_obj.mask = {}
          /\ hy_obj.file_type \notin Backends
    /\ (last.op \in ReadOps /\ hy_obj.file_type \notin Backends) =>
          /\ ~ReturnsData(last)
          /\ DOMAIN hy_obj.mask = {}

C12_Witness ==
    /\ hy_obj.file_type = "tiff"
    /\ hy_obj.file_name # None
    /\ last.op \in ReadOps
    /\ last.exc = "UnboundLocalError"

\* C13: for a wavelength within [min(wavelengths), max(wavelengths)],
\* wave_to_band returns and get_wave reads the band index that minimises
\* |wavelengths[i] - wave|, the lowest such index on a tie, and the two
\* resolvers agree on every query; with wavelengths 450, 550, 650, 750 the
\* query 560 resolves to index 1 and the query 1000 is out of range.
Resolved(o) == IF o.op = "wave_to_band" THEN o.ret.v ELSE o.ret.index

WithinWaves(ws, wave) ==
    /\ \E i \in DOMAIN ws : ws[i] <= wave
    /\ \E i \in DOMAIN ws : ws[i] >= wave

C13_NearestBandLowestOnTie ==
    last.op \in {"wave_to_band", "get_wave"} =>
        LET ws == hy_obj.wavelengths
            wave == last.args.wave[1]
            other == IF last.op = "wave_to_band"
                     THEN get_wave(hy_obj, fs, wave, None)
                     ELSE wave_to_band(hy_obj, wave)
        IN  /\ last.exc = "none" /\ other.exc = "none"
            /\ WithinWaves(ws, wave) =>
                  LET i == Resolved(last) + 1
                  IN  /\ i \in DOMAIN ws
                      /\ \A j \in DOMAIN ws : Abs(ws[i] - wave) <= Abs(ws[j] - wave)
                      /\ \A j \in 1..(i - 1) : Abs(ws[j] - wave) > Abs(ws[i] - wave)
                      /\ other.ret # NoneRet
                      /\ Resolved([op |-> IF last.op = "wave_to_band"
                                          THEN "get_wave" ELSE "wave_to_band",
                                   ret |-> other.ret]) = i - 1
            /\ ~WithinWaves(ws, wave) => last.ret = NoneRet /\ other.ret = NoneRet
            /\ (ws = <<450, 550, 650, 750>> /\ wave = 560) => Resolved(last) = 1
            /\ (ws = <<450, 550, 650, 750>> /\ wave = 1000) => last.ret = NoneRet

C13_Witness ==
    /\ last.op = "get_wave"
    /\ hy_obj.wavelengths = <<450, 550, 650, 750>>
    /\ last.args.wave = <<600>>
    /\ last.exc = "none"
    /\ last.ret.index = 1

\* C14: complete is monotonic: a read_next call, in any mode and also past
\* the last unit, never takes complete from true to false; only reset does.
C14_Step ==
    /\ (last'.op = "read_next" /\ iterator.complete) => iterator'.complete
    /\ (iterator.complete /\ ~iterator'.complete) => last'.op = "reset"

C14_CompleteMonotonic == [][C14_Step]_vars

C14_Witness ==
    /\ last.op = "read_next"
    /\ over >= 1
    /\ iterator.complete

\* C15: on every backend and interleave the access paths agree on every
\* element: get_band(b)[l][c] = get_pixels([l],[c])[0][b] = get_line(l)[c][b]
\* = get_column(c)[l][b] = get_chunk(c, c+1, l, l+1)[0][0][b]; and the arrays
\* returned have the canonical shapes: band (lines, columns), line (columns,
\* bands), column (lines, bands), pixels (n, bands), chunk (line_end -
\* line_start, col_end - col_start, bands).
IsArray2(a, n, m) ==
    /\ DOMAIN a = Rows(n)
    /\ \A i \in Rows(n) : DOMAIN a[i] = Rows(m)

IsArray3(a, n, m, k) ==
    /\ DOMAIN a = Rows(n)
    /\ \A i \in Rows(n) : IsArray2(a[i], m, k)

ReadArray(o) ==
    /\ o.op \in ReadOps
    /\ o.exc = "none"
    /\ o.ret # NoneRet
    /\ o.ret.kind \in {"band", "line", "column", "pixels", "chunk"}

Spectrum(h, l, c) == [b \in Rows(h.bands) |-> Cell(h, l, c, b)]

C16_PixelsInInputOrder ==
    (last.op = "get_pixels" /\ last.exc = "none"
        /\ Len(last.ret.lines) = Len(last.ret.columns)) =>
        LET pixels == Elements(hy_obj, fs, last.ret)
        IN  /\ DOMAIN pixels = Rows(Len(last.ret.lines))
            /\ \A i \in DOMAIN pixels :
                  pixels[i] = Spectrum(hy_obj, last.ret.lines[i + 1],
                                       last.ret.columns[i + 1])

C16_Witness ==
    /\ last.op = "get_pixels"
    /\ last.exc = "none"
    /\ last.ret.lines = <<3, 1>>
    /\ last.ret.columns = <<2, 4>>
    /\ Elements(hy_obj, fs, last.ret)
          = [i \in {0, 1} |-> IF i = 0 THEN Spectrum(hy_obj, 3, 2)
                                       ELSE Spectrum(hy_obj, 1, 4)]

\* C17: set_mask and gen_mask validate the shape of the array against
\* (lines, columns): an array of another shape is rejected and the registry
\* is left unchanged; an array of that shape is registered as given under
\* the name, and no other registered mask changes.
Offered(h, f, o) ==
    IF o.op = "set_mask" THEN o.args.array ELSE Masker(h, f, o.args.masker).ret

C17_Step ==
    (last'.op \in {"set_mask", "gen_mask"}
        /\ (last'.op = "gen_mask" => Masker(hy_obj, fs, last'.args.masker).exc = "none")) =>
        LET array == Offered(hy_obj, fs, last')
            name == last'.args.name
        IN  IF array.shape # <<hy_obj.lines, hy_obj.columns>>
            THEN last'.exc # "none" /\ hy_obj'.mask = hy_obj.mask
            ELSE /\ last'.exc = "none"
                 /\ DOMAIN hy_obj'.mask = DOMAIN hy_obj.mask \cup {name}
                 /\ hy_obj'.mask[name] = array
                 /\ \A n \in DOMAIN hy_obj.mask \ {name} :
                       hy_obj'.mask[n] = hy_obj.mask[n]

C17_MaskShapeValidated == [][C17_Step]_vars

\* C18: for lines, columns >= 1 and chunk steps >= 1 the tiles read_next
\* requests from a fresh cursor, up to and including the call that sets
\* complete, tile the raster exactly: every (line, column) cell lies in
\* exactly one of them, and complete is reached after exactly
\* ceil(lines / row_step) * ceil(columns / col_step) calls.
Ceil(n, step) == (n + step - 1) \div step

\* the requests of the cursor it on the handle h up to the one that sets
\* complete, at most fuel of them
RECURSIVE RequestsToComplete(_, _, _)
RequestsToComplete(it, h, fuel) ==
    IF fuel = 0 THEN <<>>
    ELSE LET a == Advance(it, h)
         IN  IF a.it.complete THEN <<a.req>>
             ELSE <<a.req>> \o RequestsToComplete(a.it, h, fuel - 1)

InTile(q, l, c) ==
    /\ q.line_start <= l /\ l < q.line_end
    /\ q.col_start <= c /\ c < q.col_end

C18_ExactTiling ==
    (iterator.by = "chunk" /\ last.op = "read_next" /\ over = 0) =>
        LET n == Ceil(hy_obj.lines, iterator.chunk_size[1])
                    * Ceil(hy_obj.columns, iterator.chunk_size[2])
            run == RequestsToComplete(Iterator_init("chunk", iterator.chunk_size),
                                      hy_obj, hy_obj.lines * hy_obj.columns + 1)
        IN  /\ calls <= Len(run)
            /\ last.req = run[calls]
            /\ iterator.complete <=> calls = n
            /\ iterator.complete =>
                  /\ Len(run) = n
                  /\ \A l \in Rows(hy_obj.lines), c \in Rows(hy_obj.columns) :
                        Cardinality({k \in 1..calls : InTile(run[k], l, c)}) = 1

C18_Witness ==
    /\ iterator.by = "chunk" /\ last.op = "read_next" /\ over = 0
    /\ iterator.complete
    /\ calls = 4
    /\ hy_obj.lines % iterator.chunk_size[1] # 0
    /\ hy_obj.columns % iterator.chunk_size[2] # 0

\* C19: two cursors on one handle, their read_next and reset calls and
\* direct reads of the handle interleaved call by call: each cursor is, after
\* its k-th read_next since construction or reset, in the state and has
\* issued the request of its k-th read_next when run alone; no call changes
\* a cursor's by, chunk_size or bound handle; a call on one cursor leaves the
\* other as it was, and a handle operation leaves both as they were.
RECURSIVE AloneAfter(_, _, _)
AloneAfter(it, h, k) ==
    IF k = 0 THEN [it |-> Iterator_init(it.by, it.chunk_size), req |-> NoReq]
    ELSE Advance(AloneAfter(it, h, k - 1).it, h)

Binding(it) == <<it.by, it.chunk_size, it.hy_obj>>

OnFirst(o) == o.op \in {"read_next", "reset"} /\ o.args = NoArgs
OnSecond(o) == o.op \in {"read_next", "reset"} /\ o.args # NoArgs

C19_AsAlone ==
    /\ iterator = AloneAfter(iterator, hy_obj, calls).it
    /\ second.iterator = AloneAfter(second.iterator, hy_obj, second.calls).it
    /\ (last.op = "read_next" /\ OnFirst(last)) =>
          last.req = AloneAfter(iterator, hy_obj, calls).req
    /\ (last.op = "read_next" /\ OnSecond(last)) =>
          last.req = AloneAfter(second.iterator, hy_obj, second.calls).req

C19_Step ==
    /\ Binding(iterator') = Binding(iterator)
    /\ Binding(second'.iterator) = Binding(second.iterator)
    /\ OnFirst(last') => second' = second
    /\ OnSecond(last') => iterator' = iterator /\ calls' = calls
    /\ (~OnFirst(last') /\ ~OnSecond(last')) => iterator' = iterator /\ second' = second

C19_CursorsIndependent == []C19_AsAlone /\ [][C19_Step]_vars

C19_Witness ==
    /\ last.op \in {"get_band", "get_line", "get_chunk"}
    /\ HandleOpen(hy_obj)
    /\ calls >= 1 /\ ~iterator.complete
    /\ second.calls >= 1 /\ second.iterator.complete
    /\ iterator.by = "chunk" /\ second.iterator.by = "line"

\* C20: read_next has updated the counters and complete before it calls the
\* handle's read and does not roll them back: when that read raises, the
\* cursor is left advanced to the failed unit, a following read_next
\* requests the next unit and not the failed one, complete is already true
\* if the failed unit was the last one, and the handle's metadata and mask
\* registry are unchanged.
IsLastUnit(q, h) ==
    CASE q.op = "get_line" -> q.index = h.lines - 1
      [] q.op = "get_column" -> q.index = h.columns - 1
      [] q.op = "get_band" -> q.index = h.bands - 1
      [] q.op = "get_chunk" -> q.line_end = h.lines /\ q.col_end = h.columns

C20_Step ==
    (last'.op = "read_next" /\ last'.exc # "none") =>
        LET a == Advance(iterator, hy_obj)
        IN  /\ iterator' = a.it
            /\ iterator' # iterator
            /\ last'.req = a.req
            /\ IsLastUnit(a.req, hy_obj) => iterator'.complete
            /\ Advance(iterator', hy_obj').req # last'.req
            /\ Advance(iterator', hy_obj').req = Advance(a.it, hy_obj).req
            /\ Metadata(hy_obj') = Metadata(hy_obj)
            /\ hy_obj'.mask = hy_obj.mask

C20_FailedReadLeavesCursorAdvanced == [][C20_Step]_vars

C20_Witness ==
    /\ last.op = "read_next"
    /\ last.exc \in {"FileNotFoundError", "OSError", "KeyError"}
    /\ calls >= 2 /\ over = 0
    /\ iterator.complete
    /\ IsLastUnit(last.req, hy_obj)

====
